---- MODULE Spec2Model ----
(***************************************************************************)
(* Model of src/externs.js, the host side of brunhild's foreign boundary:  *)
(* the DOM patch primitives and the delegated event listener registry.     *)
(*                                                                         *)
(* externs.js holds three mergeInto(LibraryManager.library, {...}) blocks. *)
(* mergeInto overwrites keys, so the library that is linked has, for every *)
(* name, the LAST definition of that name:                                 *)
(*   set_outer_html .. after, set_attr, remove_attr : lines 164-235        *)
(*   remove, register_listener, unregister_listener : lines 60-65, 80-112  *)
(*                                                                         *)
(* Strings that cross the boundary (Pointer_stringify) are TLA+ strings.   *)
(* An HTML text is the sequence of its tokens (open tag, text, close tag); *)
(* ParseHTML builds the node forest the browser builds from it.            *)
(***************************************************************************)
EXTENDS Integers, Sequences, FiniteSets, TLC

VARIABLES
    dom,          \* the document: its body element, a tree of nodes
    last,         \* the last boundary call: name, arguments, outcome, and
                  \* the bytes of the C string it returned (ret)
    bh_defined,   \* whether window.__bh_handlers has been created
    bh_handlers,  \* window.__bh_handlers: key -> handler closure
    listeners,    \* the document's event listener list, in registration order
    nextFn,       \* identity of the next function object created
    forwarded,    \* delegate_event calls made by the last dispatched event
    event,        \* the native event being dispatched: its type, its target,
                  \* the listeners that have not run yet
    vold,         \* diff cycle: the committed tree the DOM reflects
    vnew,         \* diff cycle: the tree being rendered
    patches       \* diff cycle: patches emitted and not yet applied

vars == <<dom, last, bh_defined, bh_handlers, listeners, nextFn, forwarded,
          event, vold, vnew, patches>>

eventVars == <<bh_defined, bh_handlers, listeners, nextFn, forwarded>>
cycleVars == <<vold, vnew, patches>>

-----------------------------------------------------------------------------
(* Bounds *)

MaxCalls == 2       \* boundary calls in one run, outside delegate_event
MaxEvents == 4      \* registry calls, events and calls from delegate_event
                    \* in one run

-----------------------------------------------------------------------------
(* DOM nodes.  An element has a tag, an ordered attribute list (el.attributes,
   pairs <<name, value>>) and children; a text node has tag "#text" and data. *)

Element(tag, attrs, kids) ==
    [tag |-> tag, attrs |-> attrs, kids |-> kids, data |-> ""]

TextNode(data) ==
    [tag |-> "#text", attrs |-> <<>>, kids |-> <<>>, data |-> data]

IsElement(n) == n.tag # "#text"

HasAttribute(n, name) == \E i \in 1..Len(n.attrs) : n.attrs[i][1] = name

GetAttribute(n, name) ==
    LET i == CHOOSE i \in 1..Len(n.attrs) : n.attrs[i][1] = name
    IN  n.attrs[i][2]

(* HTML tokens *)
Open(tag, attrs) == [t |-> "open", tag |-> tag, attrs |-> attrs, data |-> ""]
Close(tag)       == [t |-> "close", tag |-> tag, attrs |-> <<>>, data |-> ""]
Txt(data)        == [t |-> "text", tag |-> "", attrs |-> <<>>, data |-> data]

RECURSIVE ParseNodes(_, _)
(* The sibling nodes that start at token i, up to the close tag of their
   parent or the end of the text; next is the first token not consumed. *)
ParseNodes(toks, i) ==
    IF i > Len(toks) \/ toks[i].t = "close"
    THEN [nodes |-> <<>>, next |-> i]
    ELSE IF toks[i].t = "text"
    THEN LET rest == ParseNodes(toks, i + 1)
         IN  [nodes |-> <<TextNode(toks[i].data)>> \o rest.nodes,
              next |-> rest.next]
    ELSE LET inner == ParseNodes(toks, i + 1)
             rest  == ParseNodes(toks, inner.next + 1)
         IN  [nodes |-> <<Element(toks[i].tag, toks[i].attrs, inner.nodes)>>
                            \o rest.nodes,
              next |-> rest.next]

(* cont.innerHTML = html: the children of the container after the parse *)
ParseHTML(html) == ParseNodes(html, 1).nodes

-----------------------------------------------------------------------------
(* Tree addressing.  A path is the sequence of child indices from the body. *)

NotFound == [found |-> FALSE, path |-> <<>>]

RECURSIVE FindFirst(_, _)
RECURSIVE FindInKids(_, _, _)
FindInKids(kids, i, id) ==
    IF i > Len(kids) THEN NotFound
    ELSE LET r == FindFirst(kids[i], id)
         IN  IF r.found THEN [found |-> TRUE, path |-> <<i>> \o r.path]
             ELSE FindInKids(kids, i + 1, id)

FindFirst(node, id) ==
    IF IsElement(node) /\ HasAttribute(node, "id") /\ GetAttribute(node, "id") = id
    THEN [found |-> TRUE, path |-> <<>>]
    ELSE FindInKids(node.kids, 1, id)

(* document.getElementById: the first element in tree order whose id
   attribute is the given one; null for the empty string *)
getElementById(root, id) ==
    IF id = "" THEN NotFound ELSE FindFirst(root, id)

RECURSIVE NodeAt(_, _)
NodeAt(node, path) ==
    IF path = <<>> THEN node ELSE NodeAt(node.kids[Head(path)], Tail(path))

RECURSIVE UpdateAt(_, _, _)
(* the tree with the node at path replaced by new *)
UpdateAt(node, path, new) ==
    IF path = <<>> THEN new
    ELSE [node EXCEPT !.kids[Head(path)] = UpdateAt(@, Tail(path), new)]

Front(s) == SubSeq(s, 1, Len(s) - 1)
Last(s)  == s[Len(s)]

SetKids(root, path, kids) ==
    UpdateAt(root, path, [NodeAt(root, path) EXCEPT !.kids = kids])

(* parent.insertBefore(node, ref), ref the child at index refIdx, or
   null (refIdx = Len + 1), which appends *)
insertBefore(root, parentPath, node, refIdx) ==
    LET kids == NodeAt(root, parentPath).kids
    IN  SetKids(root, parentPath,
                SubSeq(kids, 1, refIdx - 1) \o <<node>>
                    \o SubSeq(kids, refIdx, Len(kids)))

appendChild(root, parentPath, node) ==
    SetKids(root, parentPath, NodeAt(root, parentPath).kids \o <<node>>)

(* the children of the parent of path, with the child at path replaced by
   the sequence of nodes new *)
ReplaceChild(root, path, new) ==
    LET kids == NodeAt(root, Front(path)).kids
        i    == Last(path)
    IN  SetKids(root, Front(path),
                SubSeq(kids, 1, i - 1) \o new \o SubSeq(kids, i + 1, Len(kids)))

(* el.setAttribute(name, value): the value is replaced in place when the
   attribute exists, and the attribute is appended otherwise *)
setAttribute(n, name, value) ==
    IF HasAttribute(n, name)
    THEN [n EXCEPT !.attrs = [i \in 1..Len(n.attrs) |->
                IF n.attrs[i][1] = name THEN <<name, value>> ELSE n.attrs[i]]]
    ELSE [n EXCEPT !.attrs = Append(@, <<name, value>>)]

(* el.removeAttribute(name) *)
removeAttribute(n, name) ==
    [n EXCEPT !.attrs = SelectSeq(@, LAMBDA a : a[1] # name)]

-----------------------------------------------------------------------------
(* Outcome of one boundary call: the document afterwards, whether
   getElementById found the target, and the exception raised, if any. *)

Returned(root, found) == [dom |-> root, found |-> found, exc |-> "none"]
Threw(root, found, e) == [dom |-> root, found |-> found, exc |-> e]

(* externs.js:165-170 *)
set_outer_html(root, id, html) ==
    LET el == getElementById(root, id)
    IN  IF el.found
        THEN Returned(ReplaceChild(root, el.path, ParseHTML(html)), TRUE)
        ELSE Returned(root, FALSE)

(* a set_inner_html that assigns the element itself, not its children *)
set_inner_html_asOuter(root, id, html) == set_outer_html(root, id, html)

(* externs.js:171-176 *)
set_inner_html(root, id, html) ==
    LET el == getElementById(root, id)
    IN  IF el.found
        THEN Returned(SetKids(root, el.path, ParseHTML(html)), TRUE)
        ELSE Returned(root, FALSE)

(* externs.js:185-193.  cont.firstChild is null when the HTML parses to no
   node, and appendChild(null) raises a TypeError. *)
append(root, id, html) ==
    LET el   == getElementById(root, id)
        cont == ParseHTML(html)
    IN  IF ~el.found THEN Returned(root, FALSE)
        ELSE IF cont = <<>> THEN Threw(root, TRUE, "TypeError")
        ELSE Returned(appendChild(root, el.path, Head(cont)), TRUE)

(* externs.js:194-202 *)
prepend(root, id, html) ==
    LET el   == getElementById(root, id)
        cont == ParseHTML(html)
    IN  IF ~el.found THEN Returned(root, FALSE)
        ELSE IF cont = <<>> THEN Threw(root, TRUE, "TypeError")
        ELSE Returned(insertBefore(root, el.path, Head(cont), 1), TRUE)

(* externs.js:203-211 *)
before(root, id, html) ==
    LET el   == getElementById(root, id)
        cont == ParseHTML(html)
    IN  IF ~el.found THEN Returned(root, FALSE)
        ELSE IF cont = <<>> THEN Threw(root, TRUE, "TypeError")
        ELSE Returned(insertBefore(root, Front(el.path), Head(cont),
                                   Last(el.path)), TRUE)

(* after with el in the place of el.nextSibling *)
after_atTarget(root, id, html) == before(root, id, html)

(* externs.js:212-220.  el.nextSibling is the child after el, or null. *)
after(root, id, html) ==
    LET el   == getElementById(root, id)
        cont == ParseHTML(html)
    IN  IF ~el.found THEN Returned(root, FALSE)
        ELSE IF cont = <<>> THEN Threw(root, TRUE, "TypeError")
        ELSE Returned(insertBefore(root, Front(el.path), Head(cont),
                                   Last(el.path) + 1), TRUE)

(* externs.js:60-65.  The body of `if (!el)` runs when el is null, where
   el.remove() raises a TypeError; with a live element nothing is done. *)
remove(root, id) ==
    LET el == getElementById(root, id)
    IN  IF ~el.found THEN Threw(root, FALSE, "TypeError")
        ELSE Returned(root, TRUE)

(* externs.js:221-227 *)
set_attr(root, id, key, val) ==
    LET el == getElementById(root, id)
    IN  IF ~el.found THEN Returned(root, FALSE)
        ELSE Returned(UpdateAt(root, el.path,
                               setAttribute(NodeAt(root, el.path), key, val)),
                      TRUE)

(* externs.js:228-234 *)
remove_attr(root, id, key) ==
    LET el == getElementById(root, id)
    IN  IF ~el.found THEN Returned(root, FALSE)
        ELSE Returned(UpdateAt(root, el.path,
                               removeAttribute(NodeAt(root, el.path), key)),
                      TRUE)

-----------------------------------------------------------------------------
(* Inputs of the boundary calls *)

Ids      == {"n1", "n2", "n3", "n9"}      \* "n9" is never in the document
AttrKeys == {"class", "__proto__"}
AttrVals == {"x"}

NoHtml == <<>>

HtmlInputs ==
    { <<>>,                                                   \* ""
      <<Txt("t")>>,                                           \* "t"
      <<Open("i", <<<<"id", "n3">>>>), Close("i")>>,          \* one element
      <<Open("b", <<>>), Close("b"),
        Open("i", <<<<"id", "n3">>>>), Close("i")>> }         \* two elements

RECURSIVE IdsOf(_)
RECURSIVE IdsOfForest(_)
IdsOfForest(nodes) ==
    IF nodes = <<>> THEN {} ELSE IdsOf(Head(nodes)) \cup IdsOfForest(Tail(nodes))
IdsOf(n) ==
    (IF IsElement(n) /\ HasAttribute(n, "id") THEN {GetAttribute(n, "id")} ELSE {})
        \cup IdsOfForest(n.kids)

(* The target of an event is an element of the document or the document
   itself, which has neither matches nor attributes. *)
DocumentTarget == <<0>>
DocumentNode(root) ==
    [tag |-> "#document", attrs |-> <<>>, kids |-> <<root>>, data |-> ""]
TargetNode(root, target) ==
    IF target = DocumentTarget THEN DocumentNode(root) ELSE NodeAt(root, target)

(* No event is being dispatched.  While one is, event.queue is the clone of
   the document's listener list the browser iterates over, and inDelegate
   says that the listener that ran last has called delegate_event: the
   application runs inside that call and may call the primitives before the
   next listener runs. *)
NoNode == [tag |-> "#none", attrs |-> <<>>, kids |-> <<>>, data |-> ""]
NoEvent ==
    [active |-> FALSE, type |-> "", target |-> <<>>, detached |-> FALSE,
     node |-> NoNode, queue |-> <<>>, inDelegate |-> FALSE, exc |-> "none"]

(* the application calls a primitive between events or from delegate_event *)
CanCall == ~event.active \/ event.inDelegate

(* the bound on the calls of a run *)
CallsLeft ==
    \/ last.n < MaxCalls
    \/ event.inDelegate /\ last.n < MaxEvents

(* e.target is a reference to a node.  The reference is followed through a
   call by marking the node, running the call and looking for the mark. *)
MarkTarget(root, path) ==
    UpdateAt(root, path, [NodeAt(root, path) EXCEPT !.data = "#target"])

RECURSIVE FindMark(_)
RECURSIVE FindMarkInKids(_, _)
FindMarkInKids(kids, i) ==
    IF i > Len(kids) THEN NotFound
    ELSE LET r == FindMark(kids[i])
         IN  IF r.found THEN [found |-> TRUE, path |-> <<i>> \o r.path]
             ELSE FindMarkInKids(kids, i + 1)
FindMark(node) ==
    IF IsElement(node) /\ node.data = "#target"
    THEN [found |-> TRUE, path |-> <<>>]
    ELSE FindMarkInKids(node.kids, 1)

(* the primitive of the name *)
Run(op, root, id, html, key, val) ==
    CASE op = "set_outer_html" -> set_outer_html(root, id, html)
      [] op = "set_inner_html" -> set_inner_html(root, id, html)
      [] op = "append"         -> append(root, id, html)
      [] op = "prepend"        -> prepend(root, id, html)
      [] op = "before"         -> before(root, id, html)
      [] op = "after"          -> after(root, id, html)
      [] op = "remove"         -> remove(root, id)
      [] op = "set_attr"       -> set_attr(root, id, key, val)
      [] op = "remove_attr"    -> remove_attr(root, id, key)

(* the event after a call: its target is where the call has left the node,
   or, when the call has taken the node out of the document, the node as it
   was, which no later call can reach *)
Retarget(op, id, html, key, val) ==
    IF ~event.active \/ event.detached \/ event.target = DocumentTarget
    THEN event
    ELSE LET m == FindMark(Run(op, MarkTarget(dom, event.target),
                               id, html, key, val).dom)
         IN  IF m.found THEN [event EXCEPT !.target = m.path]
             ELSE [event EXCEPT !.detached = TRUE,
                                !.node = NodeAt(dom, event.target)]

(* the node e.target refers to *)
EventTarget ==
    IF event.detached THEN event.node ELSE TargetNode(dom, event.target)

Call(op, id, html, key, val, r) ==
    [op |-> op, id |-> id, html |-> html, key |-> key, val |-> val,
     type |-> "", sel |-> "", target |-> <<>>,
     found |-> r.found, exc |-> r.exc, ret |-> <<>>, n |-> last.n + 1]

(* one call of a patch primitive: r is its outcome on the current document *)
Patch(op, id, html, key, val, r) ==
    /\ CallsLeft
    /\ CanCall
    /\ dom' = r.dom
    /\ last' = Call(op, id, html, key, val, r)
    /\ event' = Retarget(op, id, html, key, val)
    /\ UNCHANGED <<eventVars, cycleVars>>

SetOuterHtml ==
    \E id \in Ids, html \in HtmlInputs :
        Patch("set_outer_html", id, html, "", "", set_outer_html(dom, id, html))

SetInnerHtml ==
    \E id \in Ids, html \in HtmlInputs :
        Patch("set_inner_html", id, html, "", "", set_inner_html(dom, id, html))

AppendHtml ==
    \E id \in Ids, html \in HtmlInputs :
        Patch("append", id, html, "", "", append(dom, id, html))

PrependHtml ==
    \E id \in Ids, html \in HtmlInputs :
        Patch("prepend", id, html, "", "", prepend(dom, id, html))

BeforeHtml ==
    \E id \in Ids, html \in HtmlInputs :
        Patch("before", id, html, "", "", before(dom, id, html))

AfterHtml ==
    \E id \in Ids, html \in HtmlInputs :
        Patch("after", id, html, "", "", after(dom, id, html))

Remove ==
    \E id \in Ids :
        Patch("remove", id, NoHtml, "", "", remove(dom, id))

SetAttr ==
    \E id \in Ids, key \in AttrKeys, val \in AttrVals :
        Patch("set_attr", id, NoHtml, key, val, set_attr(dom, id, key, val))

RemoveAttr ==
    \E id \in Ids, key \in AttrKeys :
        Patch("remove_attr", id, NoHtml, key, "", remove_attr(dom, id, key))

(* The attribute channel with every key it accepts: set_attr and remove_attr
   pass the key to setAttribute and removeAttribute as it is, "id" included. *)
AnyKeys == AttrKeys \cup {"id"}
AnyVals == AttrVals \cup {"n2"}

SetAnyAttr ==
    \E id \in Ids, key \in AnyKeys, val \in AnyVals :
        Patch("set_attr", id, NoHtml, key, val, set_attr(dom, id, key, val))

RemoveAnyAttr ==
    \E id \in Ids, key \in AnyKeys :
        Patch("remove_attr", id, NoHtml, key, "", remove_attr(dom, id, key))

-----------------------------------------------------------------------------
(* get_inner_html, externs.js:177-184.  A JavaScript string is a sequence of
   UTF-16 code units; CodeUnits gives the code units of the strings of the
   model.  Three text values stand for strings outside ASCII:
   "U+00E9" is the one-character string e-acute, "U+20AC" the euro sign and
   "U+1F600" one character outside the basic plane (a surrogate pair). *)

CodeUnits(s) ==
    CASE s = ""          -> <<>>
      [] s = "p"         -> <<112>>
      [] s = "b"         -> <<98>>
      [] s = "i"         -> <<105>>
      [] s = "id"        -> <<105, 100>>
      [] s = "class"     -> <<99, 108, 97, 115, 115>>
      [] s = "__proto__" -> <<95, 95, 112, 114, 111, 116, 111, 95, 95>>
      [] s = "n1"        -> <<110, 49>>
      [] s = "n2"        -> <<110, 50>>
      [] s = "n3"        -> <<110, 51>>
      [] s = "btn"       -> <<98, 116, 110>>
      [] s = "x"         -> <<120>>
      [] s = "t"         -> <<116>>
      [] s = "u"         -> <<117>>
      [] s = "&"         -> <<38>>
      [] s = "U+00E9"    -> <<233>>
      [] s = "U+20AC"    -> <<8364>>
      [] s = "U+1F600"   -> <<55357, 56832>>

RECURSIVE EscapeUnits(_, _)
(* the HTML serializer's escaping: & in text and attribute values, < and >
   in text, the double quote in attribute values *)
EscapeUnits(units, inAttr) ==
    IF units = <<>> THEN <<>>
    ELSE LET u == Head(units)
         IN  (IF u = 38 THEN <<38, 97, 109, 112, 59>>                 \* &amp;
              ELSE IF u = 60 /\ ~inAttr THEN <<38, 108, 116, 59>>     \* &lt;
              ELSE IF u = 62 /\ ~inAttr THEN <<38, 103, 116, 59>>     \* &gt;
              ELSE IF u = 34 /\ inAttr
                   THEN <<38, 113, 117, 111, 116, 59>>                \* &quot;
              ELSE <<u>>)
                 \o EscapeUnits(Tail(units), inAttr)

RECURSIVE AttrsHTML(_, _)
AttrsHTML(attrs, i) ==
    IF i > Len(attrs) THEN <<>>
    ELSE <<32>> \o CodeUnits(attrs[i][1]) \o <<61, 34>>
             \o EscapeUnits(CodeUnits(attrs[i][2]), TRUE) \o <<34>>
             \o AttrsHTML(attrs, i + 1)

RECURSIVE OuterHTML(_)
RECURSIVE InnerHTML(_)
RECURSIVE ForestHTML(_)
ForestHTML(nodes) ==
    IF nodes = <<>> THEN <<>>
    ELSE OuterHTML(Head(nodes)) \o ForestHTML(Tail(nodes))
(* el.innerHTML: the serialization of the children *)
InnerHTML(n) == ForestHTML(n.kids)
OuterHTML(n) ==
    IF ~IsElement(n) THEN EscapeUnits(CodeUnits(n.data), FALSE)
    ELSE <<60>> \o CodeUnits(n.tag) \o AttrsHTML(n.attrs, 1) \o <<62>>
             \o InnerHTML(n)
             \o <<60, 47>> \o CodeUnits(n.tag) \o <<62>>

(* the UTF-8 bytes of one code point *)
UTF8Bytes(u) ==
    IF u <= 127 THEN <<u>>
    ELSE IF u <= 2047 THEN <<192 + (u \div 64), 128 + (u % 64)>>
    ELSE IF u <= 65535
    THEN <<224 + (u \div 4096), 128 + ((u \div 64) % 64), 128 + (u % 64)>>
    ELSE <<240 + (u \div 262144), 128 + ((u \div 4096) % 64),
           128 + ((u \div 64) % 64), 128 + (u % 64)>>

RECURSIVE StringToUTF8From(_, _, _, _)
(* the loop of stringToUTF8: out holds the bytes written so far, endIdx is
   maxBytesToWrite - 1, and the loop stops before the first character whose
   bytes would not leave room for the terminating NUL *)
StringToUTF8From(str, i, out, endIdx) ==
    IF i > Len(str) THEN out
    ELSE LET c    == str[i]
             pair == c >= 55296 /\ c <= 57343
             u    == IF pair
                     THEN 65536 + (c % 1024) * 1024 + (str[i + 1] % 1024)
                     ELSE c
             b    == UTF8Bytes(u)
         IN  IF Len(out) + Len(b) - 1 >= endIdx THEN out
             ELSE StringToUTF8From(str, IF pair THEN i + 2 ELSE i + 1,
                                   out \o b, endIdx)

(* stringToUTF8(str, buf, maxBytesToWrite): the bytes in front of the NUL
   that ends the C string in buf *)
stringToUTF8(str, maxBytesToWrite) ==
    IF maxBytesToWrite <= 0 THEN <<>>
    ELSE StringToUTF8From(str, 1, <<>>, maxBytesToWrite - 1)

(* externs.js:177-184: the C string in the buffer that is returned.  The
   buffer has s.length + 1 bytes, s.length counted in UTF-16 code units. *)
get_inner_html(root, id) ==
    LET el  == getElementById(root, id)
        str == IF el.found THEN InnerHTML(NodeAt(root, el.path)) ELSE <<>>
        len == Len(str) + 1
    IN  [found |-> el.found, ret |-> stringToUTF8(str, len)]

GetInnerHtml ==
    \E id \in Ids :
        /\ CallsLeft
        /\ CanCall
        /\ last' = [Call("get_inner_html", id, NoHtml, "", "",
                         Returned(dom, get_inner_html(dom, id).found))
                      EXCEPT !.ret = get_inner_html(dom, id).ret]
        /\ UNCHANGED <<dom, eventVars, event, cycleVars>>

TextInputs == {"&", "U+00E9", "U+20AC", "U+1F600"}

(* set_inner_html with a text as HTML *)
SetInnerText ==
    \E id \in Ids, text \in TextInputs :
        Patch("set_inner_html", id, <<Txt(text)>>, "", "",
              set_inner_html(dom, id, <<Txt(text)>>))

-----------------------------------------------------------------------------
(* The document before the first call:
   <body><p id="n1" class="btn">t<b id="n2"></b></p>u</body> *)

InitDom ==
    Element("body", <<>>,
        << Element("p", << <<"id", "n1">>, <<"class", "btn">> >>,
                   << TextNode("t"), Element("b", << <<"id", "n2">> >>, <<>>) >>),
           TextNode("u") >>)

InitCall ==
    [op |-> "init", id |-> "", html |-> NoHtml, key |-> "", val |-> "",
     type |-> "", sel |-> "", target |-> <<>>, found |-> FALSE, exc |-> "none",
     ret |-> <<>>, n |-> 0]

-----------------------------------------------------------------------------
(* The delegated event listener registry, externs.js:80-112 *)

EventTypes == {"click", "input"}
Selectors  == {"", ".btn"}

(* type + ":" + sel, the key of window.__bh_handlers *)
HandlerKey(type, sel) == type \o ":" \o sel

(* the function object created at externs.js:92; it closes over type and sel *)
NewHandler(fn, type, sel) == [fn |-> fn, type |-> type, sel |-> sel]

(* document.addEventListener(type, handler, {passive: true}): a listener is
   added unless the same callback is already listening for the type *)
addEventListener(ls, type, handler) ==
    IF \E i \in 1..Len(ls) : ls[i].type = type /\ ls[i].callback = handler
    THEN ls
    ELSE Append(ls, [type |-> type, callback |-> handler])

(* document.removeEventListener(type, handler) *)
removeEventListener(ls, type, handler) ==
    SelectSeq(ls, LAMBDA l : ~(l.type = type /\ l.callback = handler))

(* externs.js:80-106 *)
register_listener(type, sel) ==
    LET handler == NewHandler(nextFn, type, sel)
        key     == HandlerKey(type, sel)
    IN  /\ bh_defined' = TRUE
        /\ bh_handlers' = [k \in DOMAIN bh_handlers \cup {key} |->
                              IF k = key THEN handler ELSE bh_handlers[k]]
        /\ listeners' = addEventListener(listeners, type, handler)
        /\ nextFn' = nextFn + 1

(* externs.js:107-112.  window.__bh_handlers[key] raises a TypeError while
   window.__bh_handlers is undefined; removeEventListener with an undefined
   callback does nothing. *)
unregister_listener(type, sel) ==
    LET key == HandlerKey(type, sel)
    IN  IF ~bh_defined
        THEN UNCHANGED <<bh_defined, bh_handlers, listeners, nextFn>>
        ELSE /\ listeners' = IF key \in DOMAIN bh_handlers
                             THEN removeEventListener(listeners, type,
                                                      bh_handlers[key])
                             ELSE listeners
             /\ bh_handlers' = [k \in DOMAIN bh_handlers \ {key} |->
                                   bh_handlers[k]]
             /\ UNCHANGED <<bh_defined, nextFn>>

(* el.matches(sel) for the selectors of the model: a class selector, a type
   selector with the :empty pseudo-class, and a type selector *)
Matches(el, sel) ==
    CASE sel = ".btn"    -> /\ HasAttribute(el, "class")
                            /\ GetAttribute(el, "class") = "btn"
      [] sel = "b:empty" -> el.tag = "b" /\ el.kids = <<>>
      [] sel = "empty"   -> el.tag = "empty"
      [] OTHER           -> FALSE

(* attrs[name] = value on a plain object: the value of an own key is
   replaced, a new own key is added last, and "__proto__" is the accessor
   inherited from Object.prototype, whose setter ignores a string *)
ObjSet(obj, name, value) ==
    IF name = "__proto__" THEN obj
    ELSE IF \E i \in 1..Len(obj) : obj[i][1] = name
    THEN [i \in 1..Len(obj) |->
             IF obj[i][1] = name THEN <<name, value>> ELSE obj[i]]
    ELSE Append(obj, <<name, value>>)

RECURSIVE SnapshotFrom(_, _, _)
(* the loop of externs.js:98-101 from index i on (i is 1-based here) *)
SnapshotFrom(el, i, obj) ==
    IF i > Len(el.attrs) THEN obj
    ELSE SnapshotFrom(el, i + 1, ObjSet(obj, el.attrs[i][1], el.attrs[i][2]))

RECURSIVE JSONMembers(_, _)
JSONMembers(obj, i) ==
    IF i > Len(obj) THEN ""
    ELSE (IF i > 1 THEN "," ELSE "")
             \o "\"" \o obj[i][1] \o "\":\"" \o obj[i][2] \o "\""
             \o JSONMembers(obj, i + 1)

(* JSON.stringify of an object whose values are strings without characters
   that JSON escapes *)
JSONStringify(obj) == "{" \o JSONMembers(obj, 1) \o "}"

(* the handler of externs.js:92-103 run on an event with target el: the
   sequence of delegate_event calls it makes *)
Handler(h, el) ==
    IF h.sel # "" /\ ~(el.tag # "#document" /\ Matches(el, h.sel)) THEN <<>>
    ELSE IF el.tag = "#document" THEN <<>>    \* el.attributes is undefined
    ELSE << [type |-> h.type, sel |-> h.sel,
             attrs |-> JSONStringify(SnapshotFrom(el, 1, <<>>))] >>

(* el.attributes.length at externs.js:98 raises a TypeError when the target
   has no attributes list; the error is reported and the other listeners
   still run *)
HandlerThrows(h, el) == h.sel = "" /\ el.tag = "#document"

RECURSIVE ElementPaths(_)
(* the paths of the elements of a subtree, relative to its root *)
ElementPaths(n) ==
    IF ~IsElement(n) THEN {}
    ELSE {<<>>} \cup UNION { { <<i>> \o q : q \in ElementPaths(n.kids[i]) } :
                              i \in 1..Len(n.kids) }

(* event types and selectors that contain ":" *)
ColonTypes     == {"click", "click:b"}
ColonSelectors == {"b:empty", "empty"}

EventCall(op, type, sel, target, exc) ==
    [op |-> op, id |-> "", html |-> NoHtml, key |-> "", val |-> "",
     type |-> type, sel |-> sel, target |-> target,
     found |-> FALSE, exc |-> exc, ret |-> <<>>, n |-> last.n + 1]

RegisterListener ==
    \E type \in EventTypes, sel \in Selectors :
        /\ last.n < MaxEvents
        /\ CanCall
        /\ register_listener(type, sel)
        /\ last' = EventCall("register_listener", type, sel, <<>>, "none")
        /\ UNCHANGED <<dom, forwarded, event, cycleVars>>

UnregisterListener ==
    \E type \in EventTypes, sel \in Selectors :
        /\ last.n < MaxEvents
        /\ CanCall
        /\ unregister_listener(type, sel)
        /\ last' = EventCall("unregister_listener", type, sel, <<>>,
                             IF bh_defined THEN "none" ELSE "TypeError")
        /\ UNCHANGED <<dom, forwarded, event, cycleVars>>

(* A native event of the type reaches the document: the browser clones the
   document's listeners for the type, in registration order, and then runs
   them one at a time. *)
BeginEvent(type, target) ==
    LET queue == SelectSeq(listeners, LAMBDA l : l.type = type)
    IN  /\ last.n < MaxEvents
        /\ ~event.active
        /\ event' = [NoEvent EXCEPT !.active = (queue # <<>>), !.type = type,
                                    !.target = target, !.queue = queue]
        /\ forwarded' = <<>>
        /\ last' = EventCall("dispatch", type, "", target, "none")
        /\ UNCHANGED <<dom, bh_defined, bh_handlers, listeners, nextFn,
                       cycleVars>>

(* the target is an element of the document or the document *)
DispatchEvent ==
    \E type \in EventTypes, target \in ElementPaths(dom) \cup {DocumentTarget} :
        BeginEvent(type, target)

(* the listener is still on the document *)
OnDocument(l) == \E i \in 1..Len(listeners) : listeners[i] = l

(* The next listener of the event runs, on the document as it is now; a
   listener that has been removed since the event began is skipped. *)
RunListener ==
    /\ event.active
    /\ LET l    == Head(event.queue)
           live == OnDocument(l)
           out  == IF live THEN Handler(l.callback, EventTarget) ELSE <<>>
       IN  /\ forwarded' = forwarded \o out
           /\ event' = [event EXCEPT
                  !.queue = Tail(@),
                  !.active = (Tail(event.queue) # <<>>),
                  !.inDelegate = (out # <<>>),
                  !.exc = IF live /\ HandlerThrows(l.callback, EventTarget)
                          THEN "TypeError" ELSE @]
    /\ UNCHANGED <<dom, last, bh_defined, bh_handlers, listeners, nextFn,
                   cycleVars>>

RegisterColon ==
    \E type \in ColonTypes, sel \in ColonSelectors :
        /\ last.n < MaxEvents
        /\ CanCall
        /\ register_listener(type, sel)
        /\ last' = EventCall("register_listener", type, sel, <<>>, "none")
        /\ UNCHANGED <<dom, forwarded, event, cycleVars>>

UnregisterColon ==
    \E type \in ColonTypes, sel \in ColonSelectors :
        /\ last.n < MaxEvents
        /\ CanCall
        /\ unregister_listener(type, sel)
        /\ last' = EventCall("unregister_listener", type, sel, <<>>,
                             IF bh_defined THEN "none" ELSE "TypeError")
        /\ UNCHANGED <<dom, forwarded, event, cycleVars>>

DispatchColon ==
    \E type \in ColonTypes, target \in ElementPaths(dom) :
        BeginEvent(type, target)

-----------------------------------------------------------------------------
(* One diff cycle (spec.md sections 3, 4.3 and 5).  The diff engine is not
   part of externs.js; it is modelled from the specification.  Its patches
   are applied, in order, through the primitives above. *)

MaxKids == 2        \* children of the root of a virtual tree

VElement(tag, attrs, kids) ==
    [kind |-> "element", tag |-> tag, attrs |-> attrs, kids |-> kids,
     content |-> "", dom_id |-> ""]
VText(content) ==
    [kind |-> "text", tag |-> "", attrs |-> <<>>, kids |-> <<>>,
     content |-> content, dom_id |-> ""]
VFragment(kids) ==
    [kind |-> "fragment", tag |-> "", attrs |-> <<>>, kids |-> kids,
     content |-> "", dom_id |-> ""]
NoTree ==
    [kind |-> "none", tag |-> "", attrs |-> <<>>, kids |-> <<>>,
     content |-> "", dom_id |-> ""]

RECURSIVE Flatten(_)
(* a child sequence with the children of its fragments spliced in *)
Flatten(kids) ==
    IF kids = <<>> THEN <<>>
    ELSE IF Head(kids).kind = "fragment"
    THEN Flatten(Head(kids).kids) \o Flatten(Tail(kids))
    ELSE <<Head(kids)>> \o Flatten(Tail(kids))

RECURSIVE PathDigits(_)
PathDigits(path) ==
    IF path = <<>> THEN "" ELSE ToString(Head(path)) \o PathDigits(Tail(path))

RECURSIVE Materialize(_, _, _)
(* the tree with a dom_id on every element that has none: the prefix and the
   position of the element in the flattened tree *)
Materialize(v, prefix, path) ==
    LET kids == Flatten(v.kids)
    IN  IF v.kind # "element" THEN v
        ELSE [v EXCEPT
                !.dom_id = IF @ = "" THEN prefix \o PathDigits(path) ELSE @,
                !.kids = [i \in 1..Len(kids) |->
                             Materialize(kids[i], prefix, path \o <<i>>)]]

RECURSIVE Serialize(_)
RECURSIVE SerializeAll(_)
(* the HTML of a materialized tree; the dom_id is the id attribute *)
SerializeAll(vs) ==
    IF vs = <<>> THEN <<>> ELSE Serialize(Head(vs)) \o SerializeAll(Tail(vs))
Serialize(v) ==
    IF v.kind = "text" THEN <<Txt(v.content)>>
    ELSE <<Open(v.tag, << <<"id", v.dom_id>> >> \o v.attrs)>>
             \o SerializeAll(v.kids) \o <<Close(v.tag)>>

PatchOf(op, id, html, key, val) ==
    [op |-> op, id |-> id, html |-> html, key |-> key, val |-> val]

VHas(attrs, k) == \E i \in 1..Len(attrs) : attrs[i][1] = k
VGet(attrs, k) == attrs[CHOOSE i \in 1..Len(attrs) : attrs[i][1] = k][2]

RECURSIVE DiffAttrs(_, _, _, _)
(* SetAttr for the keys of new that old lacks or maps to another value (the
   first i-1 are done), then RemoveAttr for the keys only old has *)
DiffAttrs(id, old, new, i) ==
    IF i <= Len(new)
    THEN (IF VHas(old, new[i][1]) /\ VGet(old, new[i][1]) = new[i][2]
          THEN <<>>
          ELSE <<PatchOf("set_attr", id, NoHtml, new[i][1], new[i][2])>>)
             \o DiffAttrs(id, old, new, i + 1)
    ELSE IF i <= Len(new) + Len(old)
    THEN (IF VHas(new, old[i - Len(new)][1])
          THEN <<>>
          ELSE <<PatchOf("remove_attr", id, NoHtml, old[i - Len(new)][1], "")>>)
             \o DiffAttrs(id, old, new, i + 1)
    ELSE <<>>

Min(a, b) == IF a < b THEN a ELSE b

RECURSIVE Diff(_, _)
RECURSIVE DiffKids(_, _, _, _)
(* old and new are materialized elements with the same dom_id.  A child
   without an element of its own to address (a text that changes, a text
   that goes, a change of variant) is patched through the parent. *)
Diff(old, new) ==
    LET oc == old.kids
        nc == new.kids
        m  == Min(Len(oc), Len(nc))
        viaParent ==
            \/ \E i \in 1..m :
                  /\ oc[i].kind # nc[i].kind \/ oc[i].kind = "text"
                  /\ oc[i] # nc[i]
            \/ \E i \in (m + 1)..Len(oc) : oc[i].kind = "text"
    IN  IF old.tag # new.tag
        THEN <<PatchOf("set_outer_html", old.dom_id, Serialize(new), "", "")>>
        ELSE DiffAttrs(old.dom_id, old.attrs, new.attrs, 1)
                 \o (IF viaParent
                     THEN <<PatchOf("set_inner_html", old.dom_id,
                                    SerializeAll(nc), "", "")>>
                     ELSE DiffKids(old.dom_id, oc, nc, 1))

(* positional diff of the children from index i on: recurse on the common
   prefix, Append the extra children of new, Remove the extra ones of old *)
DiffKids(id, oc, nc, i) ==
    IF i > Len(oc) /\ i > Len(nc) THEN <<>>
    ELSE (IF i <= Len(oc) /\ i <= Len(nc)
          THEN (IF oc[i].kind = "element" THEN Diff(oc[i], nc[i]) ELSE <<>>)
          ELSE IF i <= Len(nc)
          THEN <<PatchOf("append", id, Serialize(nc[i]), "", "")>>
          ELSE <<PatchOf("remove", oc[i].dom_id, NoHtml, "", "")>>)
             \o DiffKids(id, oc, nc, i + 1)

RECURSIVE Inherit(_, _)
(* new with the dom_id of the element of old at the same position, where
   both are elements *)
Inherit(old, new) ==
    IF old.kind # "element" \/ new.kind # "element" THEN new
    ELSE LET oc == Flatten(old.kids)
             nc == Flatten(new.kids)
         IN  [new EXCEPT
                 !.dom_id = old.dom_id,
                 !.kids = [i \in 1..Len(nc) |->
                              IF i <= Len(oc) /\ old.tag = new.tag
                              THEN Inherit(oc[i], nc[i]) ELSE nc[i]]]

(* the primitive a patch is applied through *)
Apply(root, pt) ==
    CASE pt.op = "set_outer_html" -> set_outer_html(root, pt.id, pt.html)
      [] pt.op = "set_inner_html" -> set_inner_html(root, pt.id, pt.html)
      [] pt.op = "append"         -> append(root, pt.id, pt.html)
      [] pt.op = "prepend"        -> prepend(root, pt.id, pt.html)
      [] pt.op = "before"         -> before(root, pt.id, pt.html)
      [] pt.op = "after"          -> after(root, pt.id, pt.html)
      [] pt.op = "remove"         -> remove(root, pt.id)
      [] pt.op = "set_attr"       -> set_attr(root, pt.id, pt.key, pt.val)
      [] pt.op = "remove_attr"    -> remove_attr(root, pt.id, pt.key)

(* the next patch of the cycle is issued; an exception does not stop the
   cycle *)
ApplyPatch ==
    /\ patches # <<>>
    /\ LET pt == Head(patches)
           r  == Apply(dom, pt)
       IN  /\ dom' = r.dom
           /\ last' = Call(pt.op, pt.id, pt.html, pt.key, pt.val, r)
    /\ patches' = Tail(patches)
    /\ UNCHANGED <<eventVars, event, vold, vnew>>

(* The trees of the model: a root element <p> with up to MaxKids children,
   each a text, an element or a fragment of one element, no two texts next
   to each other (adjacent texts are one text node once parsed). *)
VLeaves ==
    { VText("t"), VText("u"), VElement("b", <<>>, <<>>),
      VFragment(<<VElement("i", <<>>, <<>>)>>) }

VAttrs == { <<>>, << <<"class", "btn">> >>, << <<"class", "x">> >> }

VKids ==
    { ks \in UNION { [1..n -> VLeaves] : n \in 0..MaxKids } :
        \A i \in 1..(Len(ks) - 1) :
            ~(ks[i].kind = "text" /\ ks[i + 1].kind = "text") }

VTrees == { VElement("p", attrs, ks) : attrs \in VAttrs, ks \in VKids }

InitCycle ==
    \E old \in VTrees, new \in VTrees :
        LET o == Materialize(old, "o", <<>>)
            n == Materialize(Inherit(o, new), "v", <<>>)
        IN  /\ vold = o
            /\ vnew = n
            /\ dom = Element("body", <<>>, ParseHTML(Serialize(o)))
            /\ patches = Diff(o, n)
            /\ last = InitCall
            /\ bh_defined = FALSE
            /\ bh_handlers = <<>>
            /\ listeners = <<>>
            /\ nextFn = 1
            /\ forwarded = <<>>
            /\ event = NoEvent

RECURSIVE Reflects(_, _)
(* the DOM node is structurally the virtual node: same tag, same attributes
   apart from the identifier, same children in the same order *)
Reflects(node, v) ==
    IF v.kind = "text" THEN node.tag = "#text" /\ node.data = v.content
    ELSE /\ node.tag = v.tag
         /\ { node.attrs[i] : i \in 1..Len(node.attrs) } \ { <<"id", v.dom_id>> }
                = { v.attrs[i] : i \in 1..Len(v.attrs) }
         /\ Len(node.kids) = Len(v.kids)
         /\ \A i \in 1..Len(v.kids) : Reflects(node.kids[i], v.kids[i])

Init ==
    /\ dom = InitDom
    /\ last = InitCall
    /\ bh_defined = FALSE
    /\ bh_handlers = <<>>
    /\ listeners = <<>>
    /\ nextFn = 1
    /\ forwarded = <<>>
    /\ event = NoEvent
    /\ vold = NoTree
    /\ vnew = NoTree
    /\ patches = <<>>

Next ==
    \/ SetOuterHtml
    \/ SetInnerHtml
    \/ AppendHtml
    \/ PrependHtml
    \/ BeforeHtml
    \/ AfterHtml
    \/ Remove
    \/ SetAttr
    \/ RemoveAttr

Spec == Init /\ [][Next]_vars

(* The registry, on a document whose attributes change *)
NextEvents ==
    \/ RegisterListener
    \/ UnregisterListener
    \/ DispatchEvent
    \/ RunListener
    \/ SetAttr
    \/ RemoveAttr

SpecEvents == Init /\ [][NextEvents]_vars

(* One diff cycle on a document that reflects the committed tree *)
NextCycle == ApplyPatch

SpecCycle == InitCycle /\ [][NextCycle]_vars

(* The attribute channel alone, with every key *)
NextAttrs ==
    \/ SetAnyAttr
    \/ RemoveAnyAttr

SpecAttrs == Init /\ [][NextAttrs]_vars

(* The registry with pairs whose type or selector contains ":" *)
NextColon ==
    \/ RegisterColon
    \/ UnregisterColon
    \/ DispatchColon
    \/ RunListener
    \/ SetInnerHtml

SpecColon == Init /\ [][NextColon]_vars

(* Reading the inner HTML back, after texts have been set *)
NextGet ==
    \/ SetInnerText
    \/ GetInnerHtml

SpecGet == Init /\ [][NextGet]_vars

-----------------------------------------------------------------------------
(* Vocabulary of the claims *)

PatchOps  == {"set_outer_html", "set_inner_html", "append", "prepend",
              "before", "after", "remove", "set_attr", "remove_attr"}
InsertOps == {"append", "prepend", "before", "after"}
HtmlOps   == InsertOps \cup {"set_outer_html", "set_inner_html"}

(* the step is a boundary call, described by last' *)
IsCall == last'.n = last.n + 1

(* the pairs that are registered: registered and not unregistered since *)
Registered(type, sel) == HandlerKey(type, sel) \in DOMAIN bh_handlers

(* the native listeners on the document that serve the pair *)
NativeListeners(type, sel) ==
    { i \in 1..Len(listeners) :
        listeners[i].callback.type = type /\ listeners[i].callback.sel = sel }

(* the delegate_event calls of the last event made for the pair *)
ForwardedFor(type, sel) ==
    { i \in 1..Len(forwarded) :
        forwarded[i].type = type /\ forwarded[i].sel = sel }

(* the tree without the node at path *)
Without(root, path) == ReplaceChild(root, path, <<>>)

-----------------------------------------------------------------------------
(* C1: after any sequence of register_listener and unregister_listener calls
   the document carries exactly one native listener for each registered
   (event type, selector) pair and none for any other pair, so that the
   native listeners never outnumber the registered pairs. *)
C1_OneListenerPerPair ==
    /\ \A type \in EventTypes, sel \in Selectors :
          Cardinality(NativeListeners(type, sel)) =
              IF Registered(type, sel) THEN 1 ELSE 0
    /\ Len(listeners) <= Cardinality(DOMAIN bh_handlers)

(* C2: unregister_listener for a pair that is not registered raises no
   exception and leaves the native listeners and the forwarding table as
   they are, in every reachable state, the initial one included. *)
C2_UnregisterUnknownIsNoop ==
    [][ (/\ IsCall
         /\ last'.op = "unregister_listener"
         /\ ~Registered(last'.type, last'.sel))
        => (/\ last'.exc = "none"
            /\ listeners' = listeners
            /\ bh_handlers' = bh_handlers) ]_vars

(* C3: once unregister_listener(type, selector) has returned, no native
   listener for the pair is left on the document and no forwarding entry
   for it is left in window.__bh_handlers. *)
C3_UnregisterRemoves ==
    (last.op = "unregister_listener" /\ last.exc = "none")
        => /\ NativeListeners(last.type, last.sel) = {}
           /\ ~Registered(last.type, last.sel)

(* a listener of the event being dispatched runs *)
ListenerStep == event.active /\ event'.queue = Tail(event.queue)

(* the handler that runs in a listener step, when it is still listening *)
RunsHandler(h) ==
    /\ ListenerStep
    /\ Head(event.queue).callback = h
    /\ OnDocument(Head(event.queue))

(* C4: for a registered pair, an event of its type whose target matches its
   selector is forwarded to delegate_event with the type, the selector and
   a snapshot that maps every attribute name of the target to its current
   value and has no other key. *)
C4_ForwardsSnapshot ==
    [][ \A sel \in Selectors :
            (/\ Registered(event.type, sel)
             /\ RunsHandler(bh_handlers[HandlerKey(event.type, sel)])
             /\ Matches(EventTarget, sel))
                => forwarded' = Append(forwarded,
                                       [type  |-> event.type, sel |-> sel,
                                        attrs |-> JSONStringify(EventTarget.attrs)])
      ]_vars

(* C5: a patch primitive called with an identifier that has no live element
   raises no exception and leaves the document unchanged. *)
C5_MissingTargetIsNonFatal ==
    [][ (IsCall /\ last'.op \in PatchOps /\ ~last'.found)
        => (last'.exc = "none" /\ dom' = dom) ]_vars

(* C6: remove(id) with the identifier of a live element takes that element
   and its subtree out of the document: no element has the identifier
   afterwards, and the rest of the document is as before. *)
C6_RemoveRemoves ==
    [][ (IsCall /\ last'.op = "remove" /\ last'.found)
        => (/\ ~getElementById(dom', last'.id).found
            /\ dom' = Without(dom, getElementById(dom, last'.id).path)) ]_vars

(* the document with every top-level node of the HTML put at the place the
   primitive names: last child, first child, before or after the target *)
WholeFragmentInserted(root, op, id, html) ==
    LET p     == getElementById(root, id).path
        nodes == ParseHTML(html)
        kids  == NodeAt(root, p).kids
        sibs  == NodeAt(root, Front(p)).kids
        i     == Last(p)
    IN  CASE op = "append"  -> SetKids(root, p, kids \o nodes)
          [] op = "prepend" -> SetKids(root, p, nodes \o kids)
          [] op = "before"  ->
                SetKids(root, Front(p),
                        SubSeq(sibs, 1, i - 1) \o nodes \o SubSeq(sibs, i, Len(sibs)))
          [] op = "after"   ->
                SetKids(root, Front(p),
                        SubSeq(sibs, 1, i) \o nodes \o SubSeq(sibs, i + 1, Len(sibs)))

(* C8: append, prepend, before and after with a live target raise no
   exception and insert every top-level node of the parsed HTML, in order,
   at the target position, whatever the number of top-level nodes. *)
C8_InsertsWholeFragment ==
    [][ (IsCall /\ last'.op \in InsertOps /\ last'.found)
        => (/\ last'.exc = "none"
            /\ dom' = WholeFragmentInserted(dom, last'.op, last'.id,
                                            last'.html)) ]_vars

(* where the target and the inserted node are after an insertion, given the
   path p of the target before it and the document after it *)
RECURSIVE ValidPath(_, _)
ValidPath(node, path) ==
    \/ path = <<>>
    \/ /\ IsElement(node)
       /\ Head(path) \in 1..Len(node.kids)
       /\ ValidPath(node.kids[Head(path)], Tail(path))

TargetPathAfter(op, p) ==
    IF op = "before" THEN Front(p) \o <<Last(p) + 1>> ELSE p

InsertedPathAfter(op, p, root) ==
    CASE op = "append"  -> p \o <<Len(NodeAt(root, p).kids)>>
      [] op = "prepend" -> p \o <<1>>
      [] op = "before"  -> p
      [] op = "after"   -> Front(p) \o <<Last(p) + 1>>

(* C9: with a live target, append makes the inserted node the last child of
   the target, prepend its first child, before its immediately preceding
   sibling and after its immediately following sibling; the nodes that
   were present keep their order and none is removed (taking the inserted
   node out again gives the document as it was). *)
C9_InsertPosition ==
    [][ (IsCall /\ last'.op \in InsertOps /\ last'.found /\ last'.exc = "none")
        => LET p == getElementById(dom, last'.id).path
               t == TargetPathAfter(last'.op, p)
               q == InsertedPathAfter(last'.op, p, dom')
           IN  /\ ValidPath(dom', t) /\ ValidPath(dom', q)
               /\ NodeAt(dom', t).tag = NodeAt(dom, p).tag
               /\ NodeAt(dom', t).attrs = NodeAt(dom, p).attrs
               /\ NodeAt(dom', q) = Head(ParseHTML(last'.html))
               /\ Without(dom', q) = dom ]_vars

(* an insertion after a target that has a following sibling, of HTML with
   two top-level nodes *)
C9_Witness ==
    /\ last.op = "after" /\ last.found /\ last.exc = "none"
    /\ Len(ParseHTML(last.html)) = 2
    /\ LET t == getElementById(dom, last.id).path
       IN  Last(t) + 2 <= Len(NodeAt(dom, Front(t)).kids)

(* what a patch addressed to a live element leaves behind *)
TookEffect(root, call) ==
    LET el == getElementById(root, call.id)
    IN  CASE call.op = "remove"      -> ~el.found
          [] call.op = "set_attr"    ->
                /\ el.found
                /\ HasAttribute(NodeAt(root, el.path), call.key)
                /\ GetAttribute(NodeAt(root, el.path), call.key) = call.val
          [] call.op = "remove_attr" ->
                el.found /\ ~HasAttribute(NodeAt(root, el.path), call.key)
          [] OTHER -> TRUE

(* C10: once a primitive has inserted HTML that contains an element with
   identifier X, the next patch addressed to X finds that element and
   takes effect on it. *)
C10_LaterPatchFindsInserted ==
    [][ (/\ IsCall
         /\ last.op \in HtmlOps /\ last.found
         /\ last'.op \in PatchOps
         /\ last'.id \in IdsOfForest(ParseHTML(last.html)))
        => (last'.found /\ TookEffect(dom', last')) ]_vars

(* C7: when every patch of the cycle has been applied, in order, to a
   document that reflected the old tree, the document reflects the new
   tree. *)
C7_DiffApplyRoundTrip ==
    (vnew # NoTree /\ patches = <<>>)
        => (Len(dom.kids) = 1 /\ Reflects(dom.kids[1], vnew))

(* the identifier attribute of a node: <<value>>, or <<>> when it has none *)
IdentifierOf(n) ==
    IF HasAttribute(n, "id") THEN <<GetAttribute(n, "id")>> ELSE <<>>

(* C11: no set_attr or remove_attr call changes or removes the identifier
   attribute of an element of the document. *)
C11_IdentifierStable ==
    [][ (IsCall /\ last'.op \in {"set_attr", "remove_attr"})
        => \A p \in ElementPaths(dom) :
               IdentifierOf(NodeAt(dom', p)) = IdentifierOf(NodeAt(dom, p)) ]_vars

RECURSIVE UTF8Decode(_)
(* the UTF-16 code units of the string a sequence of UTF-8 bytes encodes *)
UTF8Decode(bytes) ==
    IF bytes = <<>> THEN <<>>
    ELSE LET b == Head(bytes)
             n == IF b < 128 THEN 1 ELSE IF b < 224 THEN 2
                  ELSE IF b < 240 THEN 3 ELSE 4
             u == IF n = 1 THEN b
                  ELSE IF n = 2 THEN (b - 192) * 64 + (bytes[2] - 128)
                  ELSE IF n = 3
                  THEN (b - 224) * 4096 + (bytes[2] - 128) * 64 + (bytes[3] - 128)
                  ELSE (b - 240) * 262144 + (bytes[2] - 128) * 4096
                           + (bytes[3] - 128) * 64 + (bytes[4] - 128)
         IN  (IF u < 65536 THEN <<u>>
              ELSE <<55296 + ((u - 65536) \div 1024),
                     56320 + ((u - 65536) % 1024)>>)
                 \o UTF8Decode(SubSeq(bytes, n + 1, Len(bytes)))

(* C12: the C string get_inner_html(id) returns is the whole inner HTML of
   the element with that identifier, in UTF-8, also when characters take
   more than one byte, and the empty string when there is no such element. *)
C12_GetInnerHtmlComplete ==
    last.op = "get_inner_html" =>
        LET el == getElementById(dom, last.id)
        IN  UTF8Decode(last.ret) =
                IF el.found THEN InnerHTML(NodeAt(dom, el.path)) ELSE <<>>

(* the attributes of a node other than the one named k *)
OtherAttrs(n, k) ==
    { n.attrs[i] : i \in { j \in 1..Len(n.attrs) : n.attrs[j][1] # k } }

(* new differs from old at most in the node at path, and there at most in
   its attributes *)
OnlyAttrsAt(old, new, path) ==
    /\ ValidPath(new, path)
    /\ NodeAt(new, path).tag = NodeAt(old, path).tag
    /\ NodeAt(new, path).kids = NodeAt(old, path).kids
    /\ UpdateAt(new, path, NodeAt(old, path)) = old

(* new differs from old at most in the children of the node at path *)
OnlyKidsAt(old, new, path) ==
    /\ ValidPath(new, path)
    /\ NodeAt(new, path).tag = NodeAt(old, path).tag
    /\ NodeAt(new, path).attrs = NodeAt(old, path).attrs
    /\ SetKids(new, path, NodeAt(old, path).kids) = old

FrameOps == {"set_attr", "remove_attr", "set_inner_html", "set_outer_html"}

(* C13: set_attr leaves the attribute at the value and remove_attr leaves
   the element without it, both with every other attribute and the rest of
   the document unchanged; set_inner_html replaces only the children of the
   element; set_outer_html replaces only the element and its subtree, at
   the same position among its siblings.  Without the element nothing
   changes. *)
C13_FrameEffect ==
    [][ (IsCall /\ last'.op \in FrameOps)
        => LET el   == getElementById(dom, last'.id)
               path == el.path
               old  == NodeAt(dom, path)
               sibs == NodeAt(dom, Front(path)).kids
               i    == Last(path)
           IN  IF ~el.found THEN dom' = dom
               ELSE CASE last'.op = "set_attr" ->
                           /\ OnlyAttrsAt(dom, dom', path)
                           /\ HasAttribute(NodeAt(dom', path), last'.key)
                           /\ GetAttribute(NodeAt(dom', path), last'.key) = last'.val
                           /\ OtherAttrs(NodeAt(dom', path), last'.key)
                                  = OtherAttrs(old, last'.key)
                      [] last'.op = "remove_attr" ->
                           /\ OnlyAttrsAt(dom, dom', path)
                           /\ ~HasAttribute(NodeAt(dom', path), last'.key)
                           /\ OtherAttrs(NodeAt(dom', path), last'.key)
                                  = OtherAttrs(old, last'.key)
                      [] last'.op = "set_inner_html" ->
                           /\ OnlyKidsAt(dom, dom', path)
                           /\ NodeAt(dom', path).kids = ParseHTML(last'.html)
                      [] last'.op = "set_outer_html" ->
                           /\ OnlyKidsAt(dom, dom', Front(path))
                           /\ NodeAt(dom', Front(path)).kids
                                  = SubSeq(sibs, 1, i - 1)
                                        \o ParseHTML(last'.html)
                                        \o SubSeq(sibs, i + 1, Len(sibs)) ]_vars

(* set_outer_html has replaced an element that has a sibling by two nodes *)
C13_Witness ==
    /\ last.op = "set_outer_html"
    /\ last.found
    /\ last.id = "n2"
    /\ Len(last.html) > 2
    /\ getElementById(dom, "n2") = NotFound
    /\ getElementById(dom, "n3").found

(* C14: one native event is forwarded to delegate_event at most once for
   each registered (event type, selector) pair. *)
C14_ForwardedAtMostOnce ==
    \A sel \in Selectors :
        Registered(event.type, sel)
            => Cardinality(ForwardedFor(event.type, sel)) <= 1

(* C16: a handler forwards an event only when the event's own target matches
   its selector: with a non-empty selector an event whose target does not
   match is not forwarded, also when an ancestor of the target matches, and
   with the empty selector every event of the registered type is
   forwarded. *)
C16_ForwardsOnTargetMatch ==
    [][ \A i \in 1..Len(listeners) :
            RunsHandler(listeners[i].callback)
                => LET sel == listeners[i].callback.sel
                   IN  IF sel # ""
                       THEN forwarded' # forwarded
                                => (/\ EventTarget.tag # "#document"
                                    /\ Matches(EventTarget, sel))
                       ELSE forwarded' # forwarded ]_vars

(* the functions listening on the document for the pair *)
ListenerFns(type, sel) ==
    { listeners[i].callback : i \in NativeListeners(type, sel) }

(* the forwarding entries of window.__bh_handlers that serve the pair *)
EntriesFor(type, sel) ==
    { bh_handlers[k] : k \in { j \in DOMAIN bh_handlers :
          bh_handlers[j].type = type /\ bh_handlers[j].sel = sel } }

(* C15: two different (event type, selector) pairs never share a forwarding
   entry, also when the type or the selector contains ":", and
   register_listener or unregister_listener for one pair leaves the native
   listener and the forwarding entry of every other pair unchanged. *)
C15_PairsKeptApart ==
    [][ (IsCall /\ last'.op \in {"register_listener", "unregister_listener"})
        => \A type \in ColonTypes, sel \in ColonSelectors :
               <<type, sel>> # <<last'.type, last'.sel>>
                   => /\ HandlerKey(type, sel) # HandlerKey(last'.type, last'.sel)
                      /\ ListenerFns(type, sel)' = ListenerFns(type, sel)
                      /\ EntriesFor(type, sel)' = EntriesFor(type, sel) ]_vars

====
